---- MODULE Spec2Model ----
(***************************************************************************)
(* Model of Parsers/ClangLayout/src/Parser.cpp: the file table, the        *)
(* declaration locator (FindStructAtLocationVisitor), the layout tree      *)
(* builder (Helpers::ComputeStruct) and the driver (Consumer, Parse).      *)
(*                                                                         *)
(* The clang AST and ABI layout facts are inputs: `records` is the table   *)
(* of record declarations with the answers clang gives about each.         *)
(***************************************************************************)
EXTENDS Integers, Sequences, FiniteSets, TLC

VARIABLES
    g_filenameLookup,   \* TFilenameLookup: hash of FileID -> index
    g_result_files,     \* g_result.files
    g_result_node,      \* g_result.node (NullNode when nullptr)
    g_locationFilter,   \* LocationFilter {row, col}
    m_best,             \* FindStructAtLocationVisitor::m_best
    m_bestStartLine,    \* FindStructAtLocationVisitor::m_bestStartLine
    m_bestStartCol,     \* FindStructAtLocationVisitor::m_bestStartCol
    visited,            \* declaration and start of the eligible candidates handed to
                        \* TryRecord whose range contains the filter, in traversal order
    records,            \* the AST: record declarations and their ABI layout
    isMicrosoft,        \* context.getTargetInfo().getCXXABI().isMicrosoft()
    NDEBUG,             \* whether the build defines NDEBUG (assert compiled out)
    calls,              \* AddFileToDictionary calls since the last ClearResult
    pc,                 \* where the driver is
    pending,            \* translation units tool.run has still to handle
    retCode,            \* what tool.run will return
    runs,               \* number of Parse calls started
    built,              \* the last call of ComputeStruct made by HandleTranslationUnit
    output              \* what was last handed to IO::ToFile

vars == <<g_filenameLookup, g_result_files, g_result_node, g_locationFilter,
          m_best, m_bestStartLine, m_bestStartCol, visited, records,
          isMicrosoft, NDEBUG, calls, pc, pending, retCode, runs, built, output>>

(***************************************************************************)
(* Bounds of the model                                                     *)
(***************************************************************************)
MaxBases == 2
MaxFields == 1
MaxVisited == 2
MaxCalls == 4
MaxRuns == 2
MaxTUs == 2
MaxPos == 1

(***************************************************************************)
(* Constants of the program and of the target                              *)
(***************************************************************************)
UIntHalf == 65536
CharWidth == 8
PointerWidth == 64
PointerAlign == 64
VtorDispSize == 4

NullDecl == "nullptr"
NullNode == [nature |-> "nullptr"]
InvalidFileID == 0

Min(S) == CHOOSE x \in S : \A y \in S : x <= y

(***************************************************************************)
(* Layout::Node and Layout::Location as default-constructed                *)
(***************************************************************************)
NewLocation == [fileIndex |-> -1, line |-> 0, column |-> 0]

NewNode ==
    [nature |-> "Root", name |-> "", type |-> "", offset |-> 0, size |-> 0,
     align |-> 0, typeLocation |-> NewLocation, fieldLocation |-> NewLocation,
     children |-> <<>>]

(***************************************************************************)
(* clang conversions                                                       *)
(***************************************************************************)
\* FileID::getHashValue: the int ID converted to a 32-bit unsigned, written
\* as its high and low 16-bit halves (two's complement for a negative ID)
getHashValue(fileId) == <<(fileId \div UIntHalf) % UIntHalf, fileId % UIntHalf>>

\* ASTContext::toCharUnitsFromBits: BitSize / getCharWidth().  The divisor is
\* a uint64_t, so the int64_t BitSize is converted to 64-bit unsigned before
\* the division: a uint64_t offset u handed over at the call sites is divided
\* as u, and a negative BitSize b is divided as 2^64 + b (-1 bits gives
\* 2^61 - 1 characters)
toCharUnitsFromBits(bits) ==
    IF bits >= 0 THEN bits \div CharWidth ELSE (2^64 + bits) \div CharWidth

\* ASTContext::toBits
toBits(chars) == chars * CharWidth

(***************************************************************************)
(* File table                                                              *)
(***************************************************************************)
EmptyLookup == [k \in {} |-> 0]

FileTable(files, lookup) == [files |-> files, lookup |-> lookup]

EmptyFileTable == FileTable(<<>>, EmptyLookup)

\* The mutant appends and returns the new index even for a file already seen.
AddFileToDictionary_NoDedup(ft, fileId, filename) ==
    LET nextIndex == Len(ft.files)
        key == getHashValue(fileId)
    IN [ft |-> FileTable(Append(ft.files, filename), (key :> nextIndex) @@ ft.lookup),
        index |-> nextIndex]

\* Helpers::AddFileToDictionary; returns the table after the call and the index
AddFileToDictionary(ft, fileId, filename) ==
    LET nextIndex == Len(ft.files)
        key == getHashValue(fileId)
        inserted == key \notin DOMAIN ft.lookup
        lookup == IF inserted THEN (key :> nextIndex) @@ ft.lookup ELSE ft.lookup
        files == IF inserted THEN Append(ft.files, filename) ELSE ft.files
    IN [ft |-> FileTable(files, lookup), index |-> lookup[key]]

\* Helpers::RetrieveLocation; returns the Location written and the table
RetrieveLocation(loc, ft, location) ==
    IF ~location.isValid
    THEN [output |-> loc, ft |-> ft]
    ELSE IF ~location.presumedValid \/ location.fileId = InvalidFileID
    THEN [output |-> loc, ft |-> ft]
    ELSE LET r == AddFileToDictionary(ft, location.fileId, location.filename)
         IN [output |-> [fileIndex |-> r.index, line |-> location.line,
                         column |-> location.column],
             ft |-> r.ft]

(***************************************************************************)
(* Layout tree builder                                                     *)
(***************************************************************************)
\* The mutant gives a base sub-object the full size and the others the
\* non-virtual size.
NodeSize_Swapped(layout, includeVirtualBases) ==
    IF includeVirtualBases THEN layout.nvsize ELSE layout.size

\* node->size
NodeSize(layout, includeVirtualBases) ==
    IF includeVirtualBases THEN layout.size ELSE layout.nvsize

\* the three pointer nodes share size and align
PointerNode(nature, offset) ==
    [NewNode EXCEPT !.nature = nature, !.offset = offset,
                    !.size = toCharUnitsFromBits(PointerWidth),
                    !.align = toCharUnitsFromBits(PointerAlign)]

\* The mutant tests hasOwnVFPtr on its own instead of in the else branch.
VTablePointerNodes_NoElse(decl) ==
    (IF decl.isDynamicClass /\ decl.layout.primaryBase = NullDecl /\ ~isMicrosoft
     THEN <<PointerNode("VTablePtr", 0)>> ELSE <<>>)
    \o (IF decl.layout.hasOwnVFPtr THEN <<PointerNode("VFTablePtr", 0)>> ELSE <<>>)

\* vtable pointer / vftable pointer
VTablePointerNodes(decl) ==
    IF decl.isDynamicClass /\ decl.layout.primaryBase = NullDecl /\ ~isMicrosoft
    THEN <<PointerNode("VTablePtr", 0)>>
    ELSE IF decl.layout.hasOwnVFPtr
    THEN <<PointerNode("VFTablePtr", 0)>>
    ELSE <<>>

\* vbtable pointer
VBTablePointerNodes(decl) ==
    IF decl.layout.hasOwnVBPtr
    THEN <<PointerNode("VBTablePtr", decl.layout.vbptrOffset)>>
    ELSE <<>>

\* the condition of the assert on the bases
HasDependentBase(decl) ==
    \E i \in DOMAIN decl.bases : decl.bases[i].isDependentType

\* the assert left out of every build
AssertionFails_NoCheck(decl) == FALSE

\* assert(!base.getType()->isDependentType()): the process aborts when a
\* direct base, virtual or not, has a dependent type, unless the build
\* defines NDEBUG; with NDEBUG the macro expands to nothing and ComputeStruct
\* goes on with the record the base specifier resolves to
AssertionFails(decl) == ~NDEBUG /\ HasDependentBase(decl)

\* Collect nvbases: base.getType()->getAsCXXRecordDecl() of each non-virtual base
CollectNVBases(decl) ==
    LET nv == SelectSeq(decl.bases, LAMBDA b : ~b.isVirtual)
    IN [i \in 1..Len(nv) |-> nv[i].record]

\* where stable_sort puts x in an already sorted s: before the first greater key
InsertStable(s, x, key) ==
    LET later == {i \in 1..Len(s) : key[x] < key[s[i]]}
        p == IF later = {} THEN Len(s) + 1 ELSE Min(later)
    IN SubSeq(s, 1, p - 1) \o <<x>> \o SubSeq(s, p, Len(s))

\* The mutant leaves the bases in declaration order.
stable_sort_Unsorted(bases, key) == bases

\* llvm::stable_sort of the bases by layout.getBaseClassOffset
RECURSIVE stable_sort(_, _)
stable_sort(bases, key) ==
    IF bases = <<>> THEN <<>>
    ELSE InsertStable(stable_sort(SubSeq(bases, 1, Len(bases) - 1), key),
                      bases[Len(bases)], key)

\* The mutant stores the bit offset from the start of the record in the child.
BitfieldNode_AbsoluteBits(field, localFieldOffsetInBits) ==
    LET fieldOffset == toCharUnitsFromBits(localFieldOffsetInBits)
        extraData == [NewNode EXCEPT !.offset = localFieldOffsetInBits,
                                     !.size = field.bitWidth]
    IN [NewNode EXCEPT !.name = field.name, !.type = field.type,
                       !.nature = "Bitfield", !.offset = fieldOffset,
                       !.size = toCharUnitsFromBits(field.typeWidth),
                       !.align = toCharUnitsFromBits(field.typeAlign),
                       !.children = <<extraData>>]

\* bitfield
BitfieldNode(field, localFieldOffsetInBits) ==
    LET fieldOffset == toCharUnitsFromBits(localFieldOffsetInBits)
        extraData == [NewNode EXCEPT
                        !.offset = localFieldOffsetInBits - toBits(fieldOffset),
                        !.size = field.bitWidth]
    IN [NewNode EXCEPT !.name = field.name, !.type = field.type,
                       !.nature = "Bitfield", !.offset = fieldOffset,
                       !.size = toCharUnitsFromBits(field.typeWidth),
                       !.align = toCharUnitsFromBits(field.typeAlign),
                       !.children = <<extraData>>]

\* simple field, before its location is retrieved
SimpleFieldNode(field, localFieldOffsetInBits) ==
    [NewNode EXCEPT !.name = field.name, !.type = field.type,
                    !.nature = "SimpleField",
                    !.offset = toCharUnitsFromBits(localFieldOffsetInBits),
                    !.size = toCharUnitsFromBits(field.typeWidth),
                    !.align = toCharUnitsFromBits(field.typeAlign)]

\* vtordisp
VtorDispNode(vBaseOffset) ==
    [NewNode EXCEPT !.nature = "VtorDisp", !.offset = vBaseOffset - VtorDispSize,
                    !.size = VtorDispSize, !.align = VtorDispSize]

\* what a loop of ComputeStruct carries: the children pushed so far and the
\* file table; ok is FALSE once an assertion has stopped the process
Progress(ok, children, ft) == [ok |-> ok, children |-> children, ft |-> ft]

Built(ok, node, ft) == [ok |-> ok, node |-> node, ft |-> ft]

RECURSIVE ComputeStruct(_, _, _)
RECURSIVE ComputeNVBases(_, _, _)
RECURSIVE ComputeFields(_, _, _)
RECURSIVE ComputeVBases(_, _, _)

\* compute nvbases: the loop over the sorted bases
ComputeNVBases(decl, bases, acc) ==
    IF bases = <<>> \/ ~acc.ok THEN acc
    ELSE LET base == Head(bases)
             r == ComputeStruct(base, FALSE, acc.ft)
             baseNode == [r.node EXCEPT
                            !.offset = decl.layout.baseOffset[base],
                            !.nature = IF base = decl.layout.primaryBase
                                       THEN "NVPrimaryBase" ELSE "NVBase"]
         IN IF ~r.ok THEN Progress(FALSE, acc.children, r.ft)
            ELSE ComputeNVBases(decl, Tail(bases),
                                Progress(TRUE, Append(acc.children, baseNode), r.ft))

\* Check for fields: the loop from field number fieldNo (counted from 1) on
ComputeFields(decl, fieldNo, acc) ==
    IF fieldNo > Len(decl.fields) \/ ~acc.ok THEN acc
    ELSE LET field == decl.fields[fieldNo]
             localFieldOffsetInBits == decl.layout.fieldOffset[fieldNo]
         IN IF field.record # NullDecl
            THEN LET r == ComputeStruct(field.record, TRUE, acc.ft)
                     l == RetrieveLocation(r.node.fieldLocation, r.ft, field.location)
                     fieldNode == [r.node EXCEPT
                                     !.name = field.name, !.type = field.type,
                                     !.offset = toCharUnitsFromBits(localFieldOffsetInBits),
                                     !.nature = "ComplexField",
                                     !.fieldLocation = l.output]
                 IN IF ~r.ok THEN Progress(FALSE, acc.children, r.ft)
                    ELSE ComputeFields(decl, fieldNo + 1,
                                       Progress(TRUE, Append(acc.children, fieldNode), l.ft))
            ELSE IF field.isBitField
            THEN ComputeFields(decl, fieldNo + 1,
                               Progress(TRUE,
                                        Append(acc.children,
                                               BitfieldNode(field, localFieldOffsetInBits)),
                                        acc.ft))
            ELSE LET n == SimpleFieldNode(field, localFieldOffsetInBits)
                     l == RetrieveLocation(n.fieldLocation, acc.ft, field.location)
                 IN ComputeFields(decl, fieldNo + 1,
                                  Progress(TRUE,
                                           Append(acc.children,
                                                  [n EXCEPT !.fieldLocation = l.output]),
                                           l.ft))

\* Virtual bases: the loop over declaration->vbases()
ComputeVBases(decl, vbases, acc) ==
    IF vbases = <<>> \/ ~acc.ok THEN acc
    ELSE LET vBase == Head(vbases)
             vBaseOffset == decl.layout.vbaseOffset[vBase]
             vtorDisp == IF decl.layout.hasVtorDisp[vBase]
                         THEN <<VtorDispNode(vBaseOffset)>> ELSE <<>>
             r == ComputeStruct(vBase, FALSE, acc.ft)
             vBaseNode == [r.node EXCEPT
                             !.offset = vBaseOffset,
                             !.nature = IF vBase = decl.layout.primaryBase
                                        THEN "VPrimaryBase" ELSE "VBase"]
         IN IF ~r.ok THEN Progress(FALSE, acc.children \o vtorDisp, r.ft)
            ELSE ComputeVBases(decl, Tail(vbases),
                               Progress(TRUE, (acc.children \o vtorDisp) \o <<vBaseNode>>,
                                        r.ft))

\* Helpers::ComputeStruct
ComputeStruct(declaration, includeVirtualBases, ft) ==
    LET decl == records[declaration]
        layout == decl.layout
        loc == RetrieveLocation(NewLocation, ft, decl.location)
        node == [NewNode EXCEPT !.typeLocation = loc.output,
                                !.type = decl.name,
                                !.size = NodeSize(layout, includeVirtualBases),
                                !.align = layout.align]
        bases == stable_sort(CollectNVBases(decl), layout.baseOffset)
        afterBases == ComputeNVBases(decl, bases,
                                     Progress(TRUE, VTablePointerNodes(decl), loc.ft))
        afterVBPtr == Progress(afterBases.ok,
                               afterBases.children \o VBTablePointerNodes(decl),
                               afterBases.ft)
        afterFields == ComputeFields(decl, 1, afterVBPtr)
        afterVBases == IF includeVirtualBases
                       THEN ComputeVBases(decl, decl.vbases, afterFields)
                       ELSE afterFields
    IN IF AssertionFails(decl) THEN Built(FALSE, NullNode, loc.ft)
       ELSE IF ~afterVBases.ok THEN Built(FALSE, NullNode, afterVBases.ft)
       ELSE Built(TRUE, [node EXCEPT !.children = afterVBases.children], afterVBases.ft)

(***************************************************************************)
(* The AST and the ABI layout facts clang reports: the inputs               *)
(***************************************************************************)
Loc(fileId, filename, line, column) ==
    [isValid |-> TRUE, presumedValid |-> TRUE, fileId |-> fileId,
     filename |-> filename, line |-> line, column |-> column]

InvalidLoc ==
    [isValid |-> FALSE, presumedValid |-> FALSE, fileId |-> InvalidFileID,
     filename |-> "", line |-> 0, column |-> 0]

NoOffsets == [d \in {} |-> 0]

NoVtorDisps == [d \in {} |-> FALSE]

\* a CXXBaseSpecifier
BaseSpec(record, isVirtual, isDependentType) ==
    [record |-> record, isVirtual |-> isVirtual, isDependentType |-> isDependentType]

\* a FieldDecl
Field(name, type, record, isBitField, bitWidth, typeWidth, typeAlign, location) ==
    [name |-> name, type |-> type, record |-> record, isBitField |-> isBitField,
     bitWidth |-> bitWidth, typeWidth |-> typeWidth, typeAlign |-> typeAlign,
     location |-> location]

IntField(name, location) == Field(name, "int", NullDecl, FALSE, 0, 32, 32, location)

BitField(name, bitWidth) == Field(name, "unsigned int", NullDecl, TRUE, bitWidth, 32, 32, InvalidLoc)

\* a field of record type; its type is spelled as the record is named
RecordField(name, record, location) == Field(name, record, record, FALSE, 0, 0, 0, location)

\* an ASTRecordLayout
Layout(size, nvsize, align, primaryBase, hasOwnVFPtr, hasOwnVBPtr, vbptrOffset, baseOffset, vbaseOffset, hasVtorDisp, fieldOffset) ==
    [size |-> size, nvsize |-> nvsize, align |-> align, primaryBase |-> primaryBase,
     hasOwnVFPtr |-> hasOwnVFPtr, hasOwnVBPtr |-> hasOwnVBPtr,
     vbptrOffset |-> vbptrOffset, baseOffset |-> baseOffset,
     vbaseOffset |-> vbaseOffset, hasVtorDisp |-> hasVtorDisp,
     fieldOffset |-> fieldOffset]

\* a CXXRecordDecl that is a complete, valid, non-dependent definition
Record(name, location, isDynamicClass, bases, vbases, fields, layout) ==
    [name |-> name, location |-> location, isDynamicClass |-> isDynamicClass,
     bases |-> bases, vbases |-> vbases, fields |-> fields, layout |-> layout,
     isDependentType |-> FALSE, hasDefinition |-> TRUE, isInvalidDecl |-> FALSE,
     isCompleteDefinition |-> TRUE]

\* struct A { int x; };
RecordA ==
    Record("A", Loc(1, "main.cpp", 1, 8), FALSE, <<>>, <<>>,
           <<IntField("x", Loc(1, "main.cpp", 1, 16))>>,
           Layout(4, 4, 4, NullDecl, FALSE, FALSE, -1, NoOffsets, NoOffsets,
                  NoVtorDisps, <<0>>))

\* struct B { unsigned a : 3; unsigned b : 5; };  declared in a header
RecordB ==
    Record("B", Loc(2, "b.h", 1, 8), FALSE, <<>>, <<>>,
           <<BitField("a", 3), BitField("b", 5)>>,
           Layout(4, 4, 4, NullDecl, FALSE, FALSE, -1, NoOffsets, NoOffsets,
                  NoVtorDisps, <<0, 3>>))

\* struct P { virtual void f(); };
RecordP ==
    Record("P", Loc(1, "main.cpp", 2, 8), TRUE, <<>>, <<>>, <<>>,
           Layout(8, 8, 8, NullDecl, TRUE, FALSE, -1, NoOffsets, NoOffsets,
                  NoVtorDisps, <<>>))

\* struct VB { int y; };  declared in the same header as B
RecordVB ==
    Record("VB", Loc(2, "b.h", 5, 8), FALSE, <<>>, <<>>,
           <<IntField("y", Loc(2, "b.h", 5, 17))>>,
           Layout(4, 4, 4, NullDecl, FALSE, FALSE, -1, NoOffsets, NoOffsets,
                  NoVtorDisps, <<0>>))

\* struct Q : virtual P { int x; };  in the Itanium ABI P is the primary base,
\* at offset 0, and x follows the vtable pointer
RecordQ ==
    Record("Q", Loc(1, "main.cpp", 3, 8), TRUE, <<BaseSpec("P", TRUE, FALSE)>>,
           <<"P">>, <<IntField("x", Loc(1, "main.cpp", 3, 30))>>,
           Layout(16, 12, 8, "P", FALSE, FALSE, -1, NoOffsets, ("P" :> 0),
                  ("P" :> FALSE), <<64>>))

\* declarations the locator must pass over
RecordT == [RecordA EXCEPT !.name = "T", !.isDependentType = TRUE]

RecordF == [RecordA EXCEPT !.name = "F", !.hasDefinition = FALSE,
                           !.isCompleteDefinition = FALSE]

RecordI == [RecordA EXCEPT !.name = "I", !.isInvalidDecl = TRUE]

RecordN == [RecordA EXCEPT !.name = "N", !.isCompleteDefinition = FALSE]

\* sequences of distinct elements of S, of length at most n
DistinctSeqs(S, n) ==
    UNION {{s \in [1..k -> S] : \A i, j \in 1..k : i # j => s[i] # s[j]} : k \in 0..n}

SeqsUpTo(S, n) == UNION {[1..k -> S] : k \in 0..n}

Range(s) == {s[i] : i \in DOMAIN s}

NVBasePool == {"A", "P"}

\* a field of V together with the bit offset the layout reports for it
FieldChoices ==
    {[field |-> IntField("s", Loc(1, "main.cpp", 7, 9)), bits |-> 0]}
    \cup {[field |-> BitField("bf", 3), bits |-> b] : b \in {3, 11}}
    \cup {[field |-> RecordField("a", "A", Loc(1, "main.cpp", 8, 7)), bits |-> 32],
          [field |-> RecordField("q", "Q", Loc(3, "q.h", 9, 7)), bits |-> 64]}

\* the virtual bases of V: none, or VB with its offset and vtordisp flag
VBaseChoices ==
    {[vbases |-> <<>>, vbaseOffset |-> NoOffsets, hasVtorDisp |-> NoVtorDisps],
     [vbases |-> <<"VB">>, vbaseOffset |-> ("VB" :> 0), hasVtorDisp |-> ("VB" :> FALSE)],
     [vbases |-> <<"VB">>, vbaseOffset |-> ("VB" :> 16), hasVtorDisp |-> ("VB" :> TRUE)]}

\* the byte offsets the layout may report for a non-virtual base of V
BaseOffsets == {0, 8}

\* struct V: the record whose declaration and layout facts vary.  dependent
\* marks the base specifiers whose type is dependent.
RecordV(isDynamicClass, hasOwnVFPtr, hasOwnVBPtr, primaryBase, nvbases, baseOffset, vb, fields, dependent) ==
    Record("V", Loc(1, "main.cpp", 6, 8), isDynamicClass,
           [i \in 1..Len(nvbases) |-> BaseSpec(nvbases[i], FALSE, i \in dependent)]
           \o [i \in 1..Len(vb.vbases) |-> BaseSpec(vb.vbases[i], TRUE, FALSE)],
           vb.vbases,
           [i \in 1..Len(fields) |-> fields[i].field],
           Layout(24, 20, 8, primaryBase, hasOwnVFPtr, hasOwnVBPtr,
                  IF hasOwnVBPtr THEN 8 ELSE -1, baseOffset, vb.vbaseOffset,
                  vb.hasVtorDisp, [i \in 1..Len(fields) |-> fields[i].bits]))

\* struct W : V { V v; B b; };  V as a base sub-object and as a field
RecordW(v) ==
    Record("W", Loc(1, "main.cpp", 10, 8), v.isDynamicClass,
           <<BaseSpec("V", FALSE, FALSE)>>, v.vbases,
           <<RecordField("v", "V", Loc(1, "main.cpp", 10, 21)),
             RecordField("b", "B", Loc(1, "main.cpp", 10, 26))>>,
           Layout(64, 52, 8, IF v.isDynamicClass THEN "V" ELSE NullDecl,
                  FALSE, FALSE, -1, ("V" :> 0),
                  [d \in DOMAIN v.layout.vbaseOffset |-> 56],
                  v.layout.hasVtorDisp, <<192, 384>>))

\* the declarations of a translation unit, given its V
RecordTable(v) ==
    [d \in {"A", "B", "P", "VB", "Q", "T", "F", "I", "N", "V", "W"} |->
        CASE d = "A" -> RecordA
          [] d = "B" -> RecordB
          [] d = "P" -> RecordP
          [] d = "VB" -> RecordVB
          [] d = "Q" -> RecordQ
          [] d = "T" -> RecordT
          [] d = "F" -> RecordF
          [] d = "I" -> RecordI
          [] d = "N" -> RecordN
          [] d = "V" -> v
          [] d = "W" -> RecordW(v)]

\* what layout.getPrimaryBase() can be for V: none, or one of its bases
PrimaryBaseChoices(nvbases, vb) == {NullDecl} \cup Range(nvbases) \cup Range(vb.vbases)

(***************************************************************************)
(* State before the first Parse: the globals as statically initialised     *)
(***************************************************************************)
NoBuild == [declaration |-> NullDecl, returned |-> FALSE]

NoOutput == [written |-> FALSE]

InitGlobals ==
    /\ g_filenameLookup = EmptyLookup
    /\ g_result_files = <<>>
    /\ g_result_node = NullNode
    /\ g_locationFilter = [row |-> 0, col |-> 0]
    /\ m_best = NullDecl
    /\ m_bestStartLine = 0
    /\ m_bestStartCol = 0
    /\ visited = <<>>
    /\ calls = <<>>
    /\ pc = "idle"
    /\ pending = <<>>
    /\ retCode = 0
    /\ runs = 0
    /\ built = NoBuild
    /\ output = NoOutput

(***************************************************************************)
(* The builder on its own: ComputeStruct(context, best) on a declaration   *)
(* of the table, its result stored in g_result.node                        *)
(***************************************************************************)
\* records holds a V without dependent bases: every choice within the bounds
\* of its flags, primary base, non-virtual bases and their offsets, virtual
\* base and fields
InitBuilder ==
    /\ InitGlobals
    /\ isMicrosoft \in BOOLEAN
    /\ NDEBUG = FALSE
    /\ \E nvb \in DistinctSeqs(NVBasePool, MaxBases), vb \in VBaseChoices :
          \E dyn \in BOOLEAN, vf \in BOOLEAN, vbp \in BOOLEAN,
             prim \in PrimaryBaseChoices(nvb, vb),
             off \in [Range(nvb) -> BaseOffsets],
             flds \in SeqsUpTo(FieldChoices, MaxFields) :
                records = RecordTable(RecordV(dyn, vf, vbp, prim, nvb, off, vb, flds, {}))

BuildRoot(best) ==
    /\ pc = "idle"
    /\ LET r == ComputeStruct(best, TRUE, FileTable(g_result_files, g_filenameLookup))
       IN /\ r.ok
          /\ g_result_node' = r.node
          /\ g_result_files' = r.ft.files
          /\ g_filenameLookup' = r.ft.lookup
          /\ built' = [declaration |-> best, returned |-> TRUE]
    /\ pc' = "built"
    /\ UNCHANGED <<g_locationFilter, m_best, m_bestStartLine, m_bestStartCol, visited,
                   records, isMicrosoft, NDEBUG, calls, pending, retCode, runs, output>>

NextBuilder == \E best \in {"V", "W"} : BuildRoot(best)

SpecBuilder == InitBuilder /\ [][NextBuilder]_vars

(***************************************************************************)
(* Declaration locator                                                     *)
(***************************************************************************)
Position(line, col) == [line |-> line, col |-> col]

SourceRange(begin, end) == [begin |-> begin, end |-> end]

\* the FindStructAtLocationVisitor constructor
NewVisitor == [m_best |-> NullDecl, m_bestStartLine |-> 0, m_bestStartCol |-> 0]

\* the first condition of TryRecord
Eligible(declaration) ==
    /\ declaration # NullDecl
    /\ ~records[declaration].isDependentType
    /\ records[declaration].hasDefinition
    /\ ~records[declaration].isInvalidDecl
    /\ records[declaration].isCompleteDefinition

\* The mutant replaces the best match also on an equal start position.
TryRecord_LastWins(v, declaration, sourceRange) ==
    LET startLine == sourceRange.begin.line
        startCol == sourceRange.begin.col
        endLine == sourceRange.end.line
        endCol == sourceRange.end.col
    IN IF /\ Eligible(declaration)
          /\ (g_locationFilter.row > startLine
              \/ (g_locationFilter.row = startLine /\ g_locationFilter.col >= startCol))
          /\ (g_locationFilter.row < endLine
              \/ (g_locationFilter.row = endLine /\ g_locationFilter.col <= endCol))
          /\ (startLine > v.m_bestStartLine
              \/ (startLine = v.m_bestStartLine /\ startCol >= v.m_bestStartCol))
       THEN [m_best |-> declaration, m_bestStartLine |-> startLine,
             m_bestStartCol |-> startCol]
       ELSE v

\* FindStructAtLocationVisitor::TryRecord on the visitor's members v; the
\* range is given by the presumed line and column of its begin and end
TryRecord(v, declaration, sourceRange) ==
    LET startLine == sourceRange.begin.line
        startCol == sourceRange.begin.col
        endLine == sourceRange.end.line
        endCol == sourceRange.end.col
    IN IF /\ Eligible(declaration)
          /\ (g_locationFilter.row > startLine
              \/ (g_locationFilter.row = startLine /\ g_locationFilter.col >= startCol))
          /\ (g_locationFilter.row < endLine
              \/ (g_locationFilter.row = endLine /\ g_locationFilter.col <= endCol))
          /\ (startLine > v.m_bestStartLine
              \/ (startLine = v.m_bestStartLine /\ startCol > v.m_bestStartCol))
       THEN [m_best |-> declaration, m_bestStartLine |-> startLine,
             m_bestStartCol |-> startCol]
       ELSE v

\* VisitCXXRecordDecl and VisitVarDecl: only declarations of the main file
\* reach TryRecord; for a variable, declaration is its type's record or null
VisitDecl(v, d) ==
    IF d.inMainFile THEN TryRecord(v, d.declaration, d.sourceRange) ELSE v

\* the visitor's members in the state
Visitor == [m_best |-> m_best, m_bestStartLine |-> m_bestStartLine,
            m_bestStartCol |-> m_bestStartCol]

\* lexicographic order of (line, col) positions, for the claims
LexLess(a, b) == a.line < b.line \/ (a.line = b.line /\ a.col < b.col)

LexLessEq(a, b) == a = b \/ LexLess(a, b)

FilterPosition == Position(g_locationFilter.row, g_locationFilter.col)

\* the candidate is one the claims speak of: an eligible record whose range
\* contains the filter position
ContainingCandidate(c) ==
    /\ c.declaration \in DOMAIN records
    /\ ~records[c.declaration].isDependentType
    /\ ~records[c.declaration].isInvalidDecl
    /\ records[c.declaration].hasDefinition
    /\ records[c.declaration].isCompleteDefinition
    /\ LexLessEq(c.sourceRange.begin, FilterPosition)
    /\ LexLessEq(FilterPosition, c.sourceRange.end)

Positions == {Position(l, c) : l \in 0..MaxPos, c \in 0..MaxPos}

\* what the traversal can hand to TryRecord: null (a variable of a non-record
\* type) or a record, eligible or not, with a range that begins before it ends
Candidates ==
    {[declaration |-> d, sourceRange |-> SourceRange(b, e)] :
        d \in {NullDecl, "A", "Q", "T", "F", "I", "N"},
        b \in Positions, e \in Positions}

InitLocator ==
    /\ InitGlobals
    /\ records = RecordTable(RecordV(FALSE, FALSE, FALSE, NullDecl, <<>>, NoOffsets,
                                     CHOOSE vb \in VBaseChoices : vb.vbases = <<>>,
                                     <<>>, {}))
    /\ isMicrosoft = FALSE
    /\ NDEBUG = FALSE

\* Parser::SetFilter, before the traversal starts
SetFilterStep(row, col) ==
    /\ pc = "idle"
    /\ g_locationFilter' = [row |-> row, col |-> col]
    /\ pc' = "visiting"
    /\ UNCHANGED <<g_filenameLookup, g_result_files, g_result_node, m_best,
                   m_bestStartLine, m_bestStartCol, visited, records, isMicrosoft,
                   NDEBUG, calls, pending, retCode, runs, built, output>>

\* what visited keeps of a candidate
Seen(c) == [declaration |-> c.declaration, begin |-> c.sourceRange.begin]

\* one call of TryRecord during the traversal
TryRecordStep(c) ==
    /\ pc = "visiting"
    /\ LexLessEq(c.sourceRange.begin, c.sourceRange.end)
    /\ ContainingCandidate(c) => Len(visited) < MaxVisited
    /\ LET v == TryRecord(Visitor, c.declaration, c.sourceRange)
       IN /\ m_best' = v.m_best
          /\ m_bestStartLine' = v.m_bestStartLine
          /\ m_bestStartCol' = v.m_bestStartCol
    /\ visited' = IF ContainingCandidate(c) THEN Append(visited, Seen(c)) ELSE visited
    /\ UNCHANGED <<g_filenameLookup, g_result_files, g_result_node, g_locationFilter,
                   records, isMicrosoft, NDEBUG, calls, pc, pending, retCode, runs,
                   built, output>>

NextLocator ==
    \/ \E p \in Positions : SetFilterStep(p.line, p.col)
    \/ \E c \in Candidates : TryRecordStep(c)

SpecLocator == InitLocator /\ [][NextLocator]_vars

(***************************************************************************)
(* File table on its own                                                   *)
(***************************************************************************)
FileIds == {-1, 1, 2, 65537}

Filenames == {"a.h", "b.h"}

\* Helpers::ClearResult (DestroyTree frees the nodes; the pointer is reset)
ClearResult ==
    /\ g_filenameLookup' = EmptyLookup
    /\ g_result_node' = NullNode
    /\ g_result_files' = <<>>

InitFiles ==
    /\ InitGlobals
    /\ records = RecordTable(RecordV(FALSE, FALSE, FALSE, NullDecl, <<>>, NoOffsets,
                                     CHOOSE vb \in VBaseChoices : vb.vbases = <<>>,
                                     <<>>, {}))
    /\ isMicrosoft = FALSE
    /\ NDEBUG = FALSE

\* a call of AddFileToDictionary; calls records what the caller observed
AddFileStep(fileId, filename) ==
    /\ Len(calls) < MaxCalls
    /\ LET r == AddFileToDictionary(FileTable(g_result_files, g_filenameLookup),
                                    fileId, filename)
       IN /\ g_result_files' = r.ft.files
          /\ g_filenameLookup' = r.ft.lookup
          /\ calls' = Append(calls, [fileId |-> fileId, filename |-> filename,
                                     index |-> r.index,
                                     sizeBefore |-> Len(g_result_files),
                                     sizeAfter |-> Len(r.ft.files)])
    /\ UNCHANGED <<g_result_node, g_locationFilter, m_best, m_bestStartLine,
                   m_bestStartCol, visited, records, isMicrosoft, NDEBUG, pc, pending,
                   retCode, runs, built, output>>

ClearResultStep ==
    /\ ClearResult
    /\ calls' = <<>>
    /\ UNCHANGED <<g_locationFilter, m_best, m_bestStartLine, m_bestStartCol, visited,
                   records, isMicrosoft, NDEBUG, pc, pending, retCode, runs, built,
                   output>>

NextFiles ==
    \/ \E f \in FileIds, n \in Filenames : AddFileStep(f, n)
    \/ ClearResultStep

SpecFiles == InitFiles /\ [][NextFiles]_vars

(***************************************************************************)
(* Driver: Parser::Parse, and Consumer::HandleTranslationUnit called by    *)
(* tool.run once for each source file of the command line                  *)
(***************************************************************************)
Decl(declaration, beginLine, beginCol, endLine, endCol, inMainFile) ==
    [declaration |-> declaration,
     sourceRange |-> SourceRange(Position(beginLine, beginCol), Position(endLine, endCol)),
     inMainFile |-> inMainFile]

\* the record and variable declarations the traversal of a translation unit
\* visits, in its order
TranslationUnit(source) ==
    CASE source = "v.cpp" ->
           \* struct V ...;  struct W : V { V v; };  W w;
           <<Decl("V", 1, 1, 1, 9, TRUE), Decl("W", 2, 1, 2, 9, TRUE),
             Decl("W", 3, 1, 3, 3, TRUE)>>
      [] source = "q.cpp" ->
           \* #include "b.h";  struct Q : virtual P { struct A { int x; }; int x; };  int i;
           <<Decl("B", 1, 1, 2, 9, FALSE), Decl("Q", 1, 1, 3, 1, TRUE),
             Decl("A", 2, 1, 2, 9, TRUE), Decl(NullDecl, 3, 2, 3, 6, TRUE)>>

Sources == {"v.cpp", "q.cpp"}

Filters == {Position(1, 1), Position(2, 1), Position(4, 1)}

\* the traversal: every declaration of the unit goes through the visitor
RECURSIVE TraverseDecls(_, _)
TraverseDecls(v, decls) ==
    IF decls = <<>> THEN v
    ELSE TraverseDecls(VisitDecl(v, Head(decls)), Tail(decls))

\* struct V : A, virtual VB { Q q; virtual void f(); } as the Itanium ABI
\* lays it out: vtable pointer, A at 8, q at 16, VB at 32
DriverV(dependent) ==
    RecordV(TRUE, FALSE, FALSE, NullDecl, <<"A">>, ("A" :> 8),
            [vbases |-> <<"VB">>, vbaseOffset |-> ("VB" :> 32),
             hasVtorDisp |-> ("VB" :> FALSE)],
            <<[field |-> RecordField("q", "Q", Loc(3, "q.h", 9, 7)), bits |-> 128]>>,
            dependent)

\* V as above, and the precondition violation the assert of ComputeStruct is
\* there for: V handed over with its base A of a dependent type, and V with
\* one more, virtual, base of a dependent type (vbases() leaves dependent
\* bases out)
DriverRecords ==
    {DriverV({}), DriverV({1}),
     [DriverV({}) EXCEPT !.bases = Append(@, BaseSpec("T", TRUE, TRUE))]}

InitDriver ==
    /\ InitGlobals
    /\ records \in {RecordTable(v) : v \in DriverRecords}
    /\ isMicrosoft = FALSE
    /\ NDEBUG \in BOOLEAN

\* Parse when CommonOptionsParser::create fails: return false
ParseFail ==
    /\ pc = "idle"
    /\ runs < MaxRuns
    /\ runs' = runs + 1
    /\ UNCHANGED <<g_filenameLookup, g_result_files, g_result_node, g_locationFilter,
                   m_best, m_bestStartLine, m_bestStartCol, visited, records,
                   isMicrosoft, NDEBUG, calls, pc, pending, retCode, built, output>>

\* Parse up to the call of tool.run: the tool gets the source path list and
\* the filter is set from the command line
ParseBegin(row, col, sources) ==
    /\ pc = "idle"
    /\ runs < MaxRuns
    /\ runs' = runs + 1
    /\ g_locationFilter' = [row |-> row, col |-> col]
    /\ pending' = sources
    /\ retCode' = 0
    /\ pc' = "run"
    /\ UNCHANGED <<g_filenameLookup, g_result_files, g_result_node, m_best,
                   m_bestStartLine, m_bestStartCol, visited, records, isMicrosoft,
                   NDEBUG, calls, built, output>>

\* Consumer::HandleTranslationUnit for the next source file; compiles tells
\* whether the file compiled without errors (tool.run returns 0 only if all did)
HandleTranslationUnit(compiles) ==
    /\ pc = "run"
    /\ pending # <<>>
    /\ LET decls == TranslationUnit(Head(pending))
           v == TraverseDecls(NewVisitor, decls)
           best == v.m_best
           r == ComputeStruct(best, TRUE, FileTable(g_result_files, g_filenameLookup))
       IN /\ m_best' = v.m_best
          /\ m_bestStartLine' = v.m_bestStartLine
          /\ m_bestStartCol' = v.m_bestStartCol
          /\ visited' = LET seen == SelectSeq(decls, LAMBDA d : d.inMainFile /\ ContainingCandidate(d))
                         IN [i \in DOMAIN seen |-> Seen(seen[i])]
          /\ IF best = NullDecl
             THEN /\ built' = NoBuild
                  /\ pc' = pc
                  /\ UNCHANGED <<g_result_node, g_result_files, g_filenameLookup>>
             ELSE IF r.ok
             THEN /\ built' = [declaration |-> best, returned |-> TRUE]
                  /\ pc' = pc
                  /\ g_result_node' = r.node
                  /\ g_result_files' = r.ft.files
                  /\ g_filenameLookup' = r.ft.lookup
             ELSE /\ built' = [declaration |-> best, returned |-> FALSE]
                  /\ pc' = "aborted"
                  /\ g_result_node' = g_result_node
                  /\ g_result_files' = r.ft.files
                  /\ g_filenameLookup' = r.ft.lookup
    /\ pending' = Tail(pending)
    /\ retCode' = IF compiles THEN retCode ELSE 1
    /\ UNCHANGED <<g_locationFilter, records, isMicrosoft, NDEBUG, calls, runs, output>>

\* Parse after tool.run has returned: IO::ToFile when the return code is 0,
\* then ClearResult
ParseEnd ==
    /\ pc = "run"
    /\ pending = <<>>
    /\ output' = IF retCode = 0
                 THEN [written |-> TRUE, node |-> g_result_node, files |-> g_result_files]
                 ELSE output
    /\ ClearResult
    /\ pc' = "idle"
    /\ UNCHANGED <<g_locationFilter, m_best, m_bestStartLine, m_bestStartCol, visited,
                   records, isMicrosoft, NDEBUG, calls, pending, retCode, runs, built>>

NextDriver ==
    \/ ParseFail
    \/ \E f \in Filters, n \in 1..MaxTUs : \E sources \in [1..n -> Sources] :
          ParseBegin(f.line, f.col, sources)
    \/ \E compiles \in BOOLEAN : HandleTranslationUnit(compiles)
    \/ ParseEnd

Spec == InitDriver /\ [][NextDriver]_vars

(***************************************************************************)
(* Properties                                                              *)
(***************************************************************************)
RECURSIVE AllNodes(_)
AllNodes(node) == {node} \cup UNION {AllNodes(node.children[i]) : i \in DOMAIN node.children}

RecordNatures == {"ComplexField", "NVBase", "NVPrimaryBase", "VBase", "VPrimaryBase"}

BaseNatures == {"NVBase", "NVPrimaryBase", "VBase", "VPrimaryBase"}

FieldNatures == {"SimpleField", "Bitfield", "ComplexField"}

\* the nodes ComputeStruct returned: the root and the record-typed children
RecordNodes(root) == {root} \cup {n \in AllNodes(root) : n.nature \in RecordNatures}

\* the children of n whose nature is in S, in the order of n.children
ChildrenOf(n, S) == SelectSeq(n.children, LAMBDA c : c.nature \in S)

\* the positions in n.children of the children whose nature is in S
PositionsOf(n, S) == {i \in DOMAIN n.children : n.children[i].nature \in S}

TreeBuilt == g_result_node # NullNode

\* C1: once ComputeStruct has returned, every node of the tree has its
\* children in ascending (non-decreasing) order of offset.
C1_ChildrenSortedByOffset ==
    TreeBuilt =>
        \A n \in AllNodes(g_result_node) :
            \A i, j \in DOMAIN n.children :
                i < j => n.children[i].offset <= n.children[j].offset

\* C2: a declaration the locator returns comes from an eligible candidate
\* containing the filter position (visited holds exactly these), no such
\* candidate starts strictly later, and among those with the same start it is
\* the one visited first.
C2_BestMatch ==
    m_best # NullDecl =>
        \E i \in DOMAIN visited :
            /\ visited[i].declaration = m_best
            /\ visited[i].begin = Position(m_bestStartLine, m_bestStartCol)
            /\ \A j \in DOMAIN visited : ~LexLess(visited[i].begin, visited[j].begin)
            /\ \A j \in 1..(i - 1) : visited[j].begin # visited[i].begin

\* two candidates with the same, latest start and different declarations have
\* been visited, and the first is the one returned
C2_Witness ==
    /\ Len(visited) = 2
    /\ visited[1].begin = visited[2].begin
    /\ visited[1].declaration # visited[2].declaration
    /\ m_best = visited[1].declaration

\* C3: the locator returns absent if and only if no eligible candidate's
\* range contains the filter position.
C3_AbsentIffNoneContains ==
    pc = "visiting" => (m_best = NullDecl <=> visited = <<>>)

\* C4: whenever HandleTranslationUnit begins, g_result.node is null and the
\* file table and its lookup are empty.
C4_CleanWhenHandleTranslationUnitBegins ==
    (pc = "run" /\ pending # <<>>) =>
        /\ g_result_node = NullNode
        /\ g_result_files = <<>>
        /\ g_filenameLookup = EmptyLookup

\* C5: a file already seen since the last clear gets the index of its first
\* call and nothing is appended; a new file appends its filename and gets
\* the previous length; lookup and files have the same size, distinct files
\* have distinct indices and every index is below the length of the table.
C5_FileTable ==
    /\ Cardinality(DOMAIN g_filenameLookup) = Len(g_result_files)
    /\ \A i \in DOMAIN calls :
          LET earlier == {j \in 1..(i - 1) : calls[j].fileId = calls[i].fileId}
          IN /\ calls[i].index < calls[i].sizeAfter
             /\ calls[i].index < Len(g_result_files)
             /\ earlier # {} =>
                   /\ calls[i].index = calls[Min(earlier)].index
                   /\ calls[i].sizeAfter = calls[i].sizeBefore
             /\ earlier = {} =>
                   /\ calls[i].index = calls[i].sizeBefore
                   /\ calls[i].sizeAfter = calls[i].sizeBefore + 1
                   /\ g_result_files[calls[i].index + 1] = calls[i].filename
    /\ \A i, j \in DOMAIN calls :
          calls[i].fileId # calls[j].fileId => calls[i].index # calls[j].index

\* a file has been interned twice, under two filenames, after another file
C5_Witness ==
    \E i, j, k \in DOMAIN calls :
        /\ i < j /\ j < k
        /\ calls[i].fileId # calls[j].fileId
        /\ calls[j].fileId = calls[k].fileId
        /\ calls[j].filename # calls[k].filename
        /\ calls[k].index = 1

\* C6: the children of a record node hold at most one vtable pointer node
\* (VTablePtr or VFTablePtr), and a VBTablePtr node exactly when the layout
\* says the class has its own vbtable pointer.
C6_PointerNodes ==
    TreeBuilt =>
        \A n \in RecordNodes(g_result_node) :
            /\ Cardinality(PositionsOf(n, {"VTablePtr", "VFTablePtr"})) <= 1
            /\ Cardinality(PositionsOf(n, {"VBTablePtr"}))
                 = IF records[n.type].layout.hasOwnVBPtr THEN 1 ELSE 0

\* V is dynamic with no primary base under a non-Microsoft ABI and has its own
\* vfptr and vbptr: both branches of the vtable pointer test apply
C6_Witness ==
    /\ TreeBuilt
    /\ g_result_node.type = "V"
    /\ records["V"].isDynamicClass
    /\ records["V"].layout.primaryBase = NullDecl
    /\ ~isMicrosoft
    /\ records["V"].layout.hasOwnVFPtr
    /\ records["V"].layout.hasOwnVBPtr
    /\ PositionsOf(g_result_node, {"VTablePtr"}) # {}
    /\ PositionsOf(g_result_node, {"VBTablePtr"}) # {}

\* the fields of a record that are bit-fields of a non-record type, by number
BitFieldNumbers(decl) ==
    {k \in DOMAIN decl.fields : decl.fields[k].record = NullDecl /\ decl.fields[k].isBitField}

\* the k-th smallest element of a set of numbers
RECURSIVE Ascending(_)
Ascending(S) == IF S = {} THEN <<>> ELSE <<Min(S)>> \o Ascending(S \ {Min(S)})

\* C7: each bit-field of a non-record type, at bit offset b with width w, gives
\* a Bitfield node with the byte size and alignment of its type, at the byte
\* of b, with one child of size w whose offset is b less the bits of the
\* node's byte offset: node.offset * 8 + child.offset = b, 0 <= child.offset < 8.
C7_Bitfields ==
    TreeBuilt =>
        \A n \in RecordNodes(g_result_node) :
            LET decl == records[n.type]
                numbers == Ascending(BitFieldNumbers(decl))
                nodes == ChildrenOf(n, {"Bitfield"})
            IN /\ Len(nodes) = Len(numbers)
               /\ \A i \in DOMAIN nodes :
                     LET field == decl.fields[numbers[i]]
                         b == decl.layout.fieldOffset[numbers[i]]
                     IN /\ nodes[i].name = field.name
                        /\ nodes[i].size * 8 = field.typeWidth
                        /\ nodes[i].align * 8 = field.typeAlign
                        /\ nodes[i].offset * 8 <= b
                        /\ b < (nodes[i].offset + 1) * 8
                        /\ Len(nodes[i].children) = 1
                        /\ nodes[i].children[1].size = field.bitWidth
                        /\ nodes[i].offset * 8 + nodes[i].children[1].offset = b
                        /\ nodes[i].children[1].offset >= 0
                        /\ nodes[i].children[1].offset < 8

\* V has a bit-field that starts 3 bits into its second byte
C7_Witness ==
    /\ TreeBuilt
    /\ g_result_node.type = "V"
    /\ \E k \in BitFieldNumbers(records["V"]) : records["V"].layout.fieldOffset[k] = 11
    /\ \E i \in DOMAIN g_result_node.children :
          /\ g_result_node.children[i].nature = "Bitfield"
          /\ g_result_node.children[i].offset = 1
          /\ g_result_node.children[i].children[1].offset = 3

\* the direct non-virtual bases of a record, in declaration order
DeclaredNVBases(decl) ==
    LET nv == SelectSeq(decl.bases, LAMBDA b : ~b.isVirtual)
    IN [i \in DOMAIN nv |-> nv[i].record]

\* where d stands in the sequence s of distinct elements
IndexIn(s, d) == CHOOSE i \in DOMAIN s : s[i] = d

\* C8: one node for each direct non-virtual base, built without virtual bases
\* and at the base offset of the layout; the nodes are in ascending order of
\* offset, in declaration order where offsets are equal, all before every
\* field node; a node is NVPrimaryBase exactly when its record is the primary
\* base of the layout.
C8_NonVirtualBases ==
    TreeBuilt =>
        \A n \in RecordNodes(g_result_node) :
            LET decl == records[n.type]
                declared == DeclaredNVBases(decl)
                nodes == ChildrenOf(n, {"NVBase", "NVPrimaryBase"})
            IN /\ Len(nodes) = Len(declared)
               /\ {nodes[i].type : i \in DOMAIN nodes} = Range(declared)
               /\ \A i \in DOMAIN nodes :
                     /\ nodes[i].offset = decl.layout.baseOffset[nodes[i].type]
                     /\ nodes[i].size = records[nodes[i].type].layout.nvsize
                     /\ PositionsOf(nodes[i], {"VBase", "VPrimaryBase", "VtorDisp"}) = {}
                     /\ (nodes[i].nature = "NVPrimaryBase"
                           <=> nodes[i].type = decl.layout.primaryBase)
               /\ \A i, j \in DOMAIN nodes :
                     i < j =>
                        /\ nodes[i].offset <= nodes[j].offset
                        /\ (nodes[i].offset = nodes[j].offset =>
                              IndexIn(declared, nodes[i].type) < IndexIn(declared, nodes[j].type))
               /\ \A p \in PositionsOf(n, {"NVBase", "NVPrimaryBase"}) :
                     \A q \in PositionsOf(n, FieldNatures) : p < q

\* V declares its bases in the order A, P, the layout makes P the primary
\* base at offset 0 and puts A after it, and V has a field
C8_Witness ==
    /\ TreeBuilt
    /\ g_result_node.type = "V"
    /\ DeclaredNVBases(records["V"]) = <<"A", "P">>
    /\ records["V"].layout.baseOffset["P"] < records["V"].layout.baseOffset["A"]
    /\ records["V"].layout.primaryBase = "P"
    /\ records["V"].fields # <<>>
    /\ LET nodes == ChildrenOf(g_result_node, {"NVBase", "NVPrimaryBase"})
       IN /\ Len(nodes) = 2
          /\ nodes[1].type = "P" /\ nodes[1].nature = "NVPrimaryBase"
          /\ nodes[2].type = "A" /\ nodes[2].nature = "NVBase"

\* the builder's traversal from a record reaches a record with a direct base
\* of a dependent type
RECURSIVE ReachesDependentBase(_, _)
ReachesDependentBase(declaration, includeVirtualBases) ==
    LET decl == records[declaration]
    IN \/ \E i \in DOMAIN decl.bases : decl.bases[i].isDependentType
       \/ \E i \in DOMAIN decl.bases :
             ~decl.bases[i].isVirtual /\ ReachesDependentBase(decl.bases[i].record, FALSE)
       \/ \E i \in DOMAIN decl.fields :
             /\ decl.fields[i].record # NullDecl
             /\ ReachesDependentBase(decl.fields[i].record, TRUE)
       \/ /\ includeVirtualBases
          /\ \E i \in DOMAIN decl.vbases : ReachesDependentBase(decl.vbases[i], FALSE)

C10_VirtualBases ==
    TreeBuilt =>
        \A n \in RecordNodes(g_result_node) :
            LET decl == records[n.type]
                vnodes == ChildrenOf(n, {"VBase", "VPrimaryBase"})
            IN IF n.nature \in BaseNatures
               THEN /\ n.size = decl.layout.nvsize
                    /\ PositionsOf(n, {"VBase", "VPrimaryBase", "VtorDisp"}) = {}
               ELSE /\ n.size = decl.layout.size
                    /\ Len(vnodes) = Len(decl.vbases)
                    /\ \A i \in DOMAIN vnodes : vnodes[i].type = decl.vbases[i]

\* W is built: V, which has the virtual base VB with a vtordisp, is there as
\* a base sub-object without it and as a field with it
C10_Witness ==
    /\ TreeBuilt
    /\ g_result_node.type = "W"
    /\ records["V"].vbases = <<"VB">>
    /\ records["V"].layout.hasVtorDisp["VB"]
    /\ \E i, j \in DOMAIN g_result_node.children :
          LET b == g_result_node.children[i]
              f == g_result_node.children[j]
          IN /\ b.nature \in {"NVBase", "NVPrimaryBase"} /\ b.type = "V"
             /\ b.size = records["V"].layout.nvsize
             /\ f.nature = "ComplexField" /\ f.type = "V"
             /\ f.size = records["V"].layout.size
             /\ PositionsOf(f, {"VBase"}) # {}
             /\ PositionsOf(f, {"VtorDisp"}) # {}

====
